---- MODULE Spec2Model ----
(***************************************************************************)
(* AtomicHashMap (src/lockfree-map.hh) and its iterator                    *)
(* (src/lock-free-iterators.hh), driven by the callers of src/test.cc.     *)
(*                                                                         *)
(* One step of a thread is one access to shared memory (a slot load, a     *)
(* compare-and-swap, an atomic add) together with the thread-local code    *)
(* that follows it up to the next shared access.                           *)
(*                                                                         *)
(* size_t is modelled at width HashWidth: XOR and multiplication modulo    *)
(* 2^64 determine the low HashWidth bits of their result from the low      *)
(* HashWidth bits of their arguments, so Rehash below is the low-bits      *)
(* image of the 64-bit function.                                           *)
(*                                                                         *)
(* The slot loads are relaxed, so a read of an entry's fields through a    *)
(* loaded pointer is not ordered after the entry's construction. The read  *)
(* is given the constructed values, which is what the address dependency   *)
(* delivers on the machines the code is built for; the missing order is    *)
(* kept in the hb sets of the entries (HappensBefore). A spurious failure  *)
(* of compare_exchange_weak and a dereference of nullptr end the process   *)
(* (crashed).                                                              *)
(***************************************************************************)
EXTENDS Integers, Sequences, FiniteSets, TLC

VARIABLES hashmap_, heap, th, ret, left, hasher, rehasher, kinds, crashed, wins, called, std_map

vars == <<hashmap_, heap, th, ret, left, hasher, rehasher, kinds, crashed, wins, called, std_map>>

\* ---------------------------------------------------------------- bounds
\* Template parameter Size: number of slots.
Size == 4
\* Template parameter MaxTries: probe attempts per call.
MaxTries == 4
\* Width in bits of the modelled size_t.
HashWidth == 4
\* Worker threads, keys and calls per thread of the concurrent driver.
NumThreads == 2
NumKeys == 3
MaxOps == 2
\* Keys and calls of the sequential driver.
NumSeqKeys == 4
MaxSeqOps == 5
\* Keys and calls of the sequential driver under a constant hash strategy.
NumPathKeys == 5
MaxPathOps == 6

HashMod == 2 ^ HashWidth
HashVals == 0 .. (HashMod - 1)
Threads == 1 .. NumThreads
Buckets == 0 .. (Size - 1)
\* nullptr
Null == 0

\* ------------------------------------------------------- hash strategies
\* Low 16 bits of the FNV offset basis 0xcbf29ce484222325 and of the FNV
\* prime 0x100000001b3.
FnvOffsetBasis == 8997
FnvPrime == 435

RECURSIVE XorBits(_, _)
XorBits(a, b) ==
    IF a = 0 /\ b = 0 THEN 0
    ELSE (((a % 2) + (b % 2)) % 2) + (2 * XorBits(a \div 2, b \div 2))

\* struct Rehash: hash = basis; hash ^= n; hash *= mul.
Rehash(n) == (XorBits(FnvOffsetBasis % HashMod, n) * (FnvPrime % HashMod)) % HashMod

\* The RehashFunc template argument in use: the default, or an identity.
RehashStrategies == {"Rehash", "identity"}
rehash_function(n) == IF rehasher = "identity" THEN n ELSE Rehash(n)

\* HashFunc template arguments: keys to distinct buckets; keys to one bucket
\* with different hashes; the same with a key of hash 0; keys to one bucket,
\* every other key with the same hash.
HashStrategies(K) ==
    { [k \in K |-> k % HashMod],
      [k \in K |-> (1 + (Size * (k - 1))) % HashMod],
      [k \in K |-> (Size * (k - 1)) % HashMod],
      [k \in K |-> (1 + (Size * (k % 2))) % HashMod] }
ConstantStrategies(K) == { [k \in K |-> c] : c \in HashVals }

hash_function(key) == hasher[key]
KeysInUse == DOMAIN hasher

\* ------------------------------------------------------------------ heap
\* Element(hash, key, args...): val starts as counter_t(key), counter 0. hb is
\* the set of threads which the construction happens-before, mx whether it
\* happens-before the last unlock of Test::mutex.
Element(hash, key, owner, call) ==
    [hash |-> hash, key |-> key, val |-> 0, st |-> "candidate", owner |-> owner,
     call |-> call, hb |-> {owner}, mx |-> FALSE]

\* Address of the next allocation of thread t.
NewAddr(t) == t + (NumThreads * Cardinality({e \in DOMAIN heap : heap[e].owner = t}))

\* delete newelt
Delete(hp, e) ==
    [hp EXCEPT ![e].st = IF @ = "candidate" THEN "freed" ELSE "double-freed"]

\* -------------------------------------------------------------- iterator
\* Mutant of NextBucket: the bucket index advanced twice.
NextBucket_twice(bucket) == bucket + 2

\* ++bucket
NextBucket(bucket) == bucket + 1

\* bucket < size
InRange(bucket) == bucket < Size

\* iterator::increment run to its end over the slots s.
RECURSIVE increment(_, _)
increment(s, it) ==
    IF InRange(it.bucket)
    THEN LET value == s[it.bucket]
         IN  IF value # Null
             THEN [bucket |-> it.bucket, value |-> value]
             ELSE increment(s, [bucket |-> NextBucket(it.bucket), value |-> value])
    ELSE it

\* Mutant of iterator: the constructor without its call of increment().
iterator_unscanned(s, b) == [bucket |-> b, value |-> Null]

\* iterator::iterator(s, b)
iterator(s, b) == increment(s, [bucket |-> b, value |-> Null])
end == iterator(hashmap_, Size)

\* ---------------------------------------------------------------- frames
IdleFrame ==
    [pc |-> "idle", op |-> "none", key |-> 0, hash |-> 0, hash2 |-> 0, tries |-> 0,
     bucket |-> 0, elt |-> Null, newelt |-> Null,
     it |-> [bucket |-> 0, value |-> Null],
     probes |-> <<>>, cass |-> 0, pre |-> Null, fresh |-> FALSE, call |-> 0,
     yield |-> <<>>, joined |-> FALSE, before |-> {}, earlier |-> {}]

NoResult ==
    [op |-> "none", key |-> 0, it |-> [bucket |-> 0, value |-> Null], inserted |-> FALSE,
     val |-> Null, tries |-> 0, probes |-> <<>>, cass |-> 0, pre |-> Null,
     fresh |-> FALSE, call |-> 0, yield |-> <<>>, joined |-> FALSE, before |-> {},
     earlier |-> {}]

\* The entry published under hash h, if any.
PublishedAt(h) == {b \in Buckets : hashmap_[b] # Null /\ heap[hashmap_[b]].hash = h}
Published(h) == IF PublishedAt(h) = {} THEN Null
                ELSE hashmap_[CHOOSE b \in PublishedAt(h) : TRUE]

Running(t) == ~crashed /\ th[t].pc # "idle"
CanCall(t) == ~crashed /\ th[t].pc = "idle" /\ left[t] > 0

Init ==
    /\ hashmap_ = [b \in Buckets |-> Null]
    /\ heap = <<>>
    /\ th = [t \in Threads |-> IdleFrame]
    /\ ret = [t \in Threads |-> NoResult]
    /\ left = [t \in Threads |-> MaxOps]
    /\ hasher \in HashStrategies(1 .. NumKeys)
    /\ rehasher \in RehashStrategies
    /\ kinds = {"get", "inc", "iterate"}
    /\ crashed = FALSE
    /\ wins = [k \in 1 .. NumKeys |-> 0]
    /\ called = {}
    /\ std_map = <<>>

InitSeq ==
    /\ hashmap_ = [b \in Buckets |-> Null]
    /\ heap = <<>>
    /\ th = [t \in Threads |-> IdleFrame]
    /\ ret = [t \in Threads |-> NoResult]
    /\ left = [t \in Threads |-> IF t = 1 THEN MaxSeqOps ELSE 0]
    /\ hasher \in HashStrategies(1 .. NumSeqKeys)
    /\ rehasher \in RehashStrategies
    /\ kinds = {"get", "inc", "emplace", "iterate"}
    /\ crashed = FALSE
    /\ wins = [k \in 1 .. NumSeqKeys |-> 0]
    /\ called = {}
    /\ std_map = <<>>

\* One thread, a hash strategy returning the same primary hash for every key
\* and an identity rehash strategy.
InitPath ==
    /\ hashmap_ = [b \in Buckets |-> Null]
    /\ heap = <<>>
    /\ th = [t \in Threads |-> IdleFrame]
    /\ ret = [t \in Threads |-> NoResult]
    /\ left = [t \in Threads |-> IF t = 1 THEN MaxPathOps ELSE 0]
    /\ hasher \in ConstantStrategies(1 .. NumPathKeys)
    /\ rehasher = "identity"
    /\ kinds = {"get", "inc", "emplace", "iterate"}
    /\ crashed = FALSE
    /\ wins = [k \in 1 .. NumPathKeys |-> 0]
    /\ called = {}
    /\ std_map = <<>>

\* ------------------------------------------------------------------- get
\* Mutants of InLoop: one probe too many, one too few.
InLoop_le(tries) == tries <= MaxTries
InLoop_short(tries) == tries + 1 < MaxTries

\* while (tries < MaxTries)
InLoop(tries) == tries < MaxTries
\* ++tries
NextTries(tries) == tries + 1

\* Mutant of get_cursor: rehash past an entry of stored hash 0 too.
get_cursor_always(eh, hash2) == rehash_function(hash2)

\* The cursor of get after a probe that met an entry of stored hash eh, not the
\* target: else if (elt->hash != 0) hash2 = rehasher(hash2).
get_cursor(eh, hash2) == IF eh # 0 THEN rehash_function(hash2) ELSE hash2

\* return from get: v is the entry whose value is returned, or Null.
GetReturn(t, f, v) ==
    /\ ret' = [ret EXCEPT ![t] = [NoResult EXCEPT !.op = "get", !.key = f.key, !.val = v,
                                    !.tries = f.tries, !.probes = f.probes, !.pre = f.pre]]
    /\ th' = [th EXCEPT ![t] = IdleFrame]
    /\ left' = [left EXCEPT ![t] = @ - 1]

CallGet(t, key) ==
    /\ CanCall(t)
    /\ "get" \in kinds
    /\ th' = [th EXCEPT ![t] = [IdleFrame EXCEPT !.pc = "gload", !.op = "get", !.key = key,
                                 !.hash = hash_function(key), !.hash2 = hash_function(key),
                                 !.pre = Published(hash_function(key))]]
    /\ ret' = [ret EXCEPT ![t] = NoResult]
    /\ UNCHANGED <<hashmap_, heap, left, hasher, rehasher, kinds, crashed, wins, called, std_map>>

\* One iteration of the loop of get.
GetProbe(t) ==
    /\ Running(t)
    /\ th[t].pc = "gload"
    /\ LET f0 == th[t]
           bucket == f0.hash2 % Size
           elt == hashmap_[bucket]
           f == [f0 EXCEPT !.bucket = bucket, !.elt = elt,
                           !.probes = Append(@, [bucket |-> bucket, elt |-> elt])]
       IN  IF elt = Null
           THEN GetReturn(t, f, Null)
           ELSE IF heap[elt].hash = f.hash
           THEN GetReturn(t, f, elt)
           ELSE LET g == [f EXCEPT !.hash2 = get_cursor(heap[elt].hash, @),
                                   !.tries = NextTries(@)]
                IN  IF InLoop(g.tries)
                    THEN /\ th' = [th EXCEPT ![t] = g]
                         /\ UNCHANGED <<ret, left>>
                    ELSE GetReturn(t, g, Null)
    /\ UNCHANGED <<hashmap_, heap, hasher, rehasher, kinds, crashed, wins, called, std_map>>

\* -------------------------------------------------------- get_or_emplace
\* return {it, inserted} from get_or_emplace, to a caller that keeps the pair
\* ("emplace") or into Test::inc, which throws on a null entry or on a key
\* other than the one asked for, ending the thread's loop, and otherwise goes on
\* to add to the counter. hp is the heap at the return.
Return(t, f, hp, it, inserted) ==
    /\ ret' = [ret EXCEPT ![t] = [NoResult EXCEPT !.op = f.op, !.key = f.key, !.it = it,
                                    !.inserted = inserted, !.tries = f.tries,
                                    !.probes = f.probes, !.cass = f.cass, !.pre = f.pre,
                                    !.fresh = f.fresh, !.call = f.call]]
    /\ wins' = IF inserted THEN [wins EXCEPT ![f.key] = @ + 1] ELSE wins
    /\ called' = called \cup {f.key}
    /\ IF f.op = "emplace"
       THEN /\ th' = [th EXCEPT ![t] = IdleFrame]
            /\ left' = [left EXCEPT ![t] = @ - 1]
       ELSE IF it.value = Null \/ hp[it.value].key # f.key
       THEN /\ th' = [th EXCEPT ![t] = IdleFrame]
            /\ left' = [left EXCEPT ![t] = 0]
       ELSE /\ th' = [th EXCEPT ![t] = [IdleFrame EXCEPT !.pc = "add", !.op = "inc",
                                          !.key = f.key, !.it = it]]
            /\ left' = left

\* ++tries and the loop test; f holds the cursor already advanced.
NextTry(t, f, hp) ==
    LET g == [f EXCEPT !.pc = "load", !.tries = NextTries(@), !.elt = Null,
                       !.newelt = Null]
    IN  IF InLoop(g.tries)
        THEN /\ th' = [th EXCEPT ![t] = g]
             /\ UNCHANGED <<ret, left, wins, called>>
        ELSE Return(t, g, hp, end, FALSE)

\* Mutant of emplace_cursor: rehash past an entry of stored hash 0 too.
emplace_cursor_always(eh, hash2) == rehash_function(hash2)

\* The cursor of get_or_emplace after a probe that met an entry of stored hash
\* eh, not the target: else if (elt->hash != 0) hash2 = rehasher(hash2).
emplace_cursor(eh, hash2) == IF eh # 0 THEN rehash_function(hash2) ELSE hash2

\* A call of get_or_emplace(key), by Test::inc ("inc") or on its own ("emplace").
CallEmplace(t, op, key) ==
    /\ CanCall(t)
    /\ op \in kinds
    /\ th' = [th EXCEPT ![t] = [IdleFrame EXCEPT !.pc = "load", !.op = op, !.key = key,
                                 !.hash = hash_function(key), !.hash2 = hash_function(key),
                                 !.pre = Published(hash_function(key)),
                                 !.fresh = key \notin called, !.call = left[t]]]
    /\ ret' = [ret EXCEPT ![t] = NoResult]
    /\ UNCHANGED <<hashmap_, heap, left, hasher, rehasher, kinds, crashed, wins, called, std_map>>

\* The slot load of one iteration, with the branches taken on an occupied
\* slot, or the construction of the candidate on an empty one.
Load(t) ==
    /\ Running(t)
    /\ th[t].pc = "load"
    /\ LET f0 == th[t]
           bucket == f0.hash2 % Size
           elt == hashmap_[bucket]
           f == [f0 EXCEPT !.bucket = bucket, !.elt = elt,
                           !.probes = Append(@, [bucket |-> bucket, elt |-> elt])]
       IN  IF elt = Null
           THEN LET newelt == NewAddr(t)
                IN  /\ heap' = heap @@ (newelt :> Element(f.hash, f.key, t, f.call))
                    /\ th' = [th EXCEPT ![t] = [f EXCEPT !.pc = "cas", !.newelt = newelt]]
                    /\ UNCHANGED <<ret, left, wins, called>>
           ELSE /\ heap' = heap
                /\ IF heap[elt].hash = f.hash
                   THEN Return(t, f, heap, iterator(hashmap_, bucket), FALSE)
                   ELSE NextTry(t, [f EXCEPT !.hash2 = emplace_cursor(heap[elt].hash, @)], heap)
    /\ UNCHANGED <<hashmap_, hasher, rehasher, kinds, crashed, std_map>>

\* What the failure branches of the compare-and-swap do with the candidate:
\* freed when the observed hash is the target or is non-zero, kept otherwise.
DiscardOnFail(hp, newelt, eh, hash) ==
    IF eh = hash \/ eh # 0 THEN Delete(hp, newelt) ELSE hp

\* Mutant of Expected: a plain store, whatever the slot holds.
Expected_any(cur) == TRUE

\* The comparison of compare_exchange: the slot holds the expected nullptr.
Expected(cur) == cur = Null

\* compare_exchange_weak(elt, newelt) expecting nullptr, and the branches after it.
\* On an empty slot it succeeds or, being weak, fails leaving elt == nullptr, and
\* elt->hash then reads through the null pointer, which ends the process.
Cas(t) ==
    /\ Running(t)
    /\ th[t].pc = "cas"
    /\ LET f0 == th[t]
           bucket == f0.bucket
           cur == hashmap_[bucket]
           f == [f0 EXCEPT !.cass = @ + 1]
       IN  IF Expected(cur)
           THEN \E spurious \in BOOLEAN :
                  IF spurious
                  THEN /\ crashed' = TRUE
                       /\ UNCHANGED <<hashmap_, heap, th, ret, left, wins, called>>
                  ELSE /\ hashmap_' = [hashmap_ EXCEPT ![bucket] = f.newelt]
                       /\ heap' = [heap EXCEPT ![f.newelt].st = "published"]
                       /\ crashed' = crashed
                       /\ Return(t, f, heap', iterator(hashmap_', bucket), TRUE)
           ELSE LET eh == heap[cur].hash
                    g == [f EXCEPT !.elt = cur,
                                   !.probes[Len(f.probes)] = [bucket |-> bucket, elt |-> cur]]
                IN  /\ hashmap_' = hashmap_
                    /\ crashed' = crashed
                    /\ heap' = DiscardOnFail(heap, f.newelt, eh, f.hash)
                    /\ IF eh = f.hash
                       THEN Return(t, g, heap', iterator(hashmap_, bucket), FALSE)
                       ELSE NextTry(t, [g EXCEPT !.hash2 = emplace_cursor(eh, @)], heap')
    /\ UNCHANGED <<hasher, rehasher, kinds, std_map>>

\* std::lock_guard lock{mutex}: the lock synchronizes with the earlier unlocks,
\* so what happened before them happens before thread t from here on.
Lock(hp, t) ==
    [e \in DOMAIN hp |-> IF hp[e].mx THEN [hp[e] EXCEPT !.hb = @ \cup {t}] ELSE hp[e]]

\* ~lock_guard: what happens before thread t here happens before the unlock.
Unlock(hp, t) ==
    [e \in DOMAIN hp |-> IF t \in hp[e].hb THEN [hp[e] EXCEPT !.mx = TRUE] ELSE hp[e]]

\* v->counter += howmuch; std_map[key] += howmuch under the mutex. (The order
\* that the read-modify-write of the counter gives is contained in the order
\* that the lock which follows it in this step gives.)
Add(t) ==
    /\ Running(t)
    /\ th[t].pc = "add"
    /\ LET f == th[t]
       IN  /\ heap' = Unlock(Lock([heap EXCEPT ![f.it.value].val = @ + 1], t), t)
           /\ std_map' = IF f.key \in DOMAIN std_map
                         THEN [std_map EXCEPT ![f.key] = @ + 1]
                         ELSE std_map @@ (f.key :> 1)
    /\ th' = [th EXCEPT ![t] = IdleFrame]
    /\ left' = [left EXCEPT ![t] = @ - 1]
    /\ UNCHANGED <<hashmap_, ret, hasher, rehasher, kinds, crashed, wins, called>>

\* ------------------------------------------------------------- traversal
\* The other threads have all finished (the traversal follows the joins).
Joined(t) == \A u \in Threads \ {t} : left[u] = 0 /\ th[u].pc = "idle"

\* The range-for loop has reached end(): the traversal returns.
Finish(t, f) ==
    /\ ret' = [ret EXCEPT ![t] = [NoResult EXCEPT !.op = "iterate", !.it = f.it,
                                    !.yield = f.yield, !.joined = f.joined,
                                    !.before = f.before, !.earlier = f.earlier]]
    /\ th' = [th EXCEPT ![t] = IdleFrame]
    /\ left' = [left EXCEPT ![t] = @ - 1]

\* Mutant of begin: the traversal starts one slot late.
begin_late == [bucket |-> 1, value |-> Null]

\* begin(): iterator(*this, 0) as constructed, before its increment() scans.
begin == [bucket |-> 0, value |-> Null]

\* The entries in the slots, and the entries that the traversals which have
\* returned yielded.
InSlots == {hashmap_[b] : b \in {c \in Buckets : hashmap_[c] # Null}}
YieldedSoFar ==
    UNION {{ret[u].yield[i].entry : i \in DOMAIN ret[u].yield} : u \in Threads}

\* for (counter_t& c : test.lf_map), from begin(). The frame keeps the entries
\* published when the traversal starts in before, and those that earlier
\* traversals yielded in earlier.
CallIterate(t) ==
    /\ CanCall(t)
    /\ "iterate" \in kinds
    /\ th' = [th EXCEPT ![t] = [IdleFrame EXCEPT !.pc = "scan", !.op = "iterate",
                                 !.it = begin, !.joined = Joined(t),
                                 !.before = InSlots, !.earlier = YieldedSoFar]]
    /\ ret' = [ret EXCEPT ![t] = NoResult]
    /\ UNCHANGED <<hashmap_, heap, left, hasher, rehasher, kinds, crashed, wins, called, std_map>>

\* increment() has left its loop without a load: the range-for test it != end()
\* ends the traversal or runs the body on the entry the iterator holds.
LoopTest(t, g) ==
    IF g.it.bucket = Size
    THEN Finish(t, g)
    ELSE /\ th' = [th EXCEPT ![t] = [g EXCEPT !.pc = "body"]]
         /\ UNCHANGED <<ret, left>>

\* One iteration of the loop of iterator::increment: one slot load.
Scan(t) ==
    /\ Running(t)
    /\ th[t].pc = "scan"
    /\ LET f == th[t]
           value == hashmap_[f.it.bucket]
       IN  IF value # Null
           THEN /\ th' = [th EXCEPT ![t] = [f EXCEPT !.pc = "body", !.it.value = value]]
                /\ UNCHANGED <<ret, left>>
           ELSE LET g == [f EXCEPT !.it = [bucket |-> NextBucket(f.it.bucket), value |-> value]]
                IN  IF InRange(g.it.bucket)
                    THEN /\ th' = [th EXCEPT ![t] = g]
                         /\ UNCHANGED <<ret, left>>
                    ELSE LoopTest(t, g)
    /\ UNCHANGED <<hashmap_, heap, hasher, rehasher, kinds, crashed, wins, called, std_map>>

\* The loop body, lf_map[c.key] = c.counter.load(), then operator++. The body
\* on an iterator that holds no entry reads through a null pointer.
Body(t) ==
    /\ Running(t)
    /\ th[t].pc = "body"
    /\ LET f == th[t]
       IN  IF f.it.value = Null
           THEN /\ crashed' = TRUE
                /\ UNCHANGED <<th, ret, left>>
           ELSE LET c == heap[f.it.value]
                    y == [f EXCEPT !.yield = Append(@, [entry |-> f.it.value, key |-> c.key,
                                                        counter |-> c.val])]
                    g == IF InRange(y.it.bucket)
                         THEN [y EXCEPT !.it.bucket = NextBucket(@)]
                         ELSE y
                IN  /\ crashed' = crashed
                    /\ IF InRange(y.it.bucket) /\ InRange(g.it.bucket)
                       THEN /\ th' = [th EXCEPT ![t] = [g EXCEPT !.pc = "scan"]]
                            /\ UNCHANGED <<ret, left>>
                       ELSE LoopTest(t, g)
    /\ UNCHANGED <<hashmap_, heap, hasher, rehasher, kinds, wins, called, std_map>>

Next ==
    \E t \in Threads :
        \/ \E key \in KeysInUse : CallGet(t, key)
        \/ GetProbe(t)
        \/ \E key \in KeysInUse, op \in {"inc", "emplace"} : CallEmplace(t, op, key)
        \/ Load(t)
        \/ Cas(t)
        \/ Add(t)
        \/ CallIterate(t)
        \/ Scan(t)
        \/ Body(t)

Spec == Init /\ [][Next]_vars
SpecSeq == InitSeq /\ [][Next]_vars
SpecPath == InitPath /\ [][Next]_vars

\* ================================================================ claims
\* Results of get_or_emplace calls, and calls of it still running.
IsEmplace(r) == r.op \in {"inc", "emplace"}
InEmplace(t, key) == th[t].pc \in {"load", "cas"} /\ th[t].key = key
IsEnd(it) == it.bucket = Size
AllReturned(key) == ~crashed /\ \A t \in Threads : ~InEmplace(t, key)
OnlyKeyOfItsHash(key) == \A k \in KeysInUse : hash_function(k) = hash_function(key) => k = key

\* C1 as stated, for a key that shares its primary hash with no other key: once
\* the get_or_emplace(key) calls have all returned, exactly one of them has
\* returned inserted = true, and every other one has returned inserted = false
\* with a handle whose bucket holds the winner's entry.
C1_ExactlyOneWinner ==
    \A key \in KeysInUse :
        (/\ AllReturned(key)
         /\ OnlyKeyOfItsHash(key)
         /\ \E t \in Threads : IsEmplace(ret[t]) /\ ret[t].key = key)
        => /\ wins[key] = 1
           /\ \A t \in Threads :
                (IsEmplace(ret[t]) /\ ret[t].key = key /\ ~ret[t].inserted)
                => /\ ~IsEnd(ret[t].it)
                   /\ hashmap_[ret[t].it.bucket] = ret[t].it.value
                   /\ heap[ret[t].it.value].key = key

\* C1 amended: at most one get_or_emplace(key) call returns inserted = true; a
\* call that returns inserted = true returns the bucket of the entry it made; a
\* call that returns inserted = false returns the end handle or the bucket of
\* the one published entry whose stored hash is Hash(key); and when no other
\* key has that primary hash and some call has returned a handle other than
\* end, then once all the calls have returned exactly one has returned true.
C1_SinglePublish ==
    \A key \in KeysInUse :
        /\ wins[key] <= 1
        /\ \A t \in Threads :
             (IsEmplace(ret[t]) /\ ret[t].key = key)
             => LET r == ret[t]
                IN  /\ IsEnd(r.it) => ~r.inserted /\ r.it.value = Null
                    /\ ~IsEnd(r.it) =>
                         /\ hashmap_[r.it.bucket] = r.it.value
                         /\ r.it.value # Null
                         /\ heap[r.it.value].hash = hash_function(key)
                         /\ PublishedAt(hash_function(key)) = {r.it.bucket}
                         /\ r.inserted => /\ heap[r.it.value].key = key
                                          /\ heap[r.it.value].owner = t
                                          /\ heap[r.it.value].call = r.call
                         /\ (AllReturned(key) /\ OnlyKeyOfItsHash(key))
                            => /\ wins[key] = 1
                               /\ heap[r.it.value].key = key

\* C1 witness: two calls for one key raced; one published, the other lost the
\* compare-and-swap and returned the winner's bucket.
C1_Witness ==
    \E t, u \in Threads :
        /\ t # u
        /\ IsEmplace(ret[t]) /\ IsEmplace(ret[u]) /\ ret[t].key = ret[u].key
        /\ ret[t].inserted /\ ~ret[u].inserted /\ ret[u].cass >= 1
        /\ ret[u].it = ret[t].it

\* C2: a traversal begun after every other thread has finished, with pairwise
\* distinct primary hashes and no call having returned end, yields each used
\* key once with the total of the increments applied to it, as in the
\* reference map.
PairwiseDistinct == \A k1, k2 \in KeysInUse : hash_function(k1) = hash_function(k2) => k1 = k2
EndSeen == \E t \in Threads : IsEmplace(ret[t]) /\ ret[t].it.value = Null
YieldKeys(y) == {y[i].key : i \in DOMAIN y}
\* std::map<std::string, int> lf_map filled by the loop of check().
LfMap(y) ==
    [k \in YieldKeys(y) |->
        y[CHOOSE i \in DOMAIN y : y[i].key = k /\ \A j \in DOMAIN y : y[j].key = k => j <= i].counter]
C2_NoLostUpdates ==
    \A t \in Threads :
        (ret[t].op = "iterate" /\ ret[t].joined /\ PairwiseDistinct /\ ~EndSeen /\ ~crashed)
        => LET y == ret[t].yield
           IN  /\ \A i, j \in DOMAIN y : y[i].key = y[j].key => i = j
               /\ YieldKeys(y) = DOMAIN std_map
               /\ \A i \in DOMAIN y : y[i].counter = std_map[y[i].key]
               /\ LfMap(y) = std_map

\* C2 witness: after the joins the traversal found a key that two threads had
\* incremented, and another key.
C2_Witness ==
    \E t \in Threads :
        /\ ret[t].op = "iterate" /\ ret[t].joined /\ PairwiseDistinct /\ ~EndSeen /\ ~crashed
        /\ Len(ret[t].yield) >= 2
        /\ \E i \in DOMAIN ret[t].yield : ret[t].yield[i].counter >= 2
        /\ \E u \in Threads \ {t} : ret[u].op = "inc" /\ ret[u].cass >= 1

\* C3: a get or get_or_emplace call that starts when an entry is published under
\* Hash(key) returns that entry: get its value, get_or_emplace inserted = false
\* with a handle at its bucket; never not-found, never the end handle.
C3_Stable ==
    \A t \in Threads :
        (ret[t].op \in {"get", "inc", "emplace"} /\ ret[t].pre # Null)
        => LET r == ret[t]
           IN  IF r.op = "get"
               THEN r.val = r.pre
               ELSE /\ ~r.inserted
                    /\ ~IsEnd(r.it)
                    /\ r.it.value = r.pre
                    /\ hashmap_[r.it.bucket] = r.pre

\* C3 witness: a get that started after its entry was published reached it
\* past another key's entry, other insertions having followed the publication.
C3_Witness ==
    \E t \in Threads :
        /\ ret[t].op = "get" /\ ret[t].pre # Null /\ ret[t].val = ret[t].pre
        /\ ret[t].tries >= 1
        /\ \E b \in Buckets : hashmap_[b] # Null /\ hashmap_[b] > ret[t].pre

\* C4 as stated: under a constant hash strategy and an identity rehash strategy,
\* get_or_emplace for a fifth distinct key, after calls for four distinct keys,
\* returns (end-handle, false).
ConstantHash == \A k1, k2 \in KeysInUse : hash_function(k1) = hash_function(k2)
FifthKey(r) ==
    /\ ConstantHash /\ rehasher = "identity"
    /\ IsEmplace(r) /\ r.fresh /\ Cardinality(called) = 5
C4_FifthKeyEnd ==
    \A t \in Threads : FifthKey(ret[t]) => IsEnd(ret[t].it) /\ ~ret[t].inserted

\* C4 amended: under a constant hash strategy and an identity rehash strategy,
\* get_or_emplace for a fifth distinct key, after calls for four distinct keys,
\* returns, after one probe and without a compare-and-swap, inserted = false
\* with a handle at bucket Hash mod Size, which holds the one entry of the map,
\* published by the first call under another key; it does not loop.
C4_FifthKeyAliases ==
    \A t \in Threads :
        FifthKey(ret[t])
        => LET r == ret[t]
           IN  /\ ~r.inserted
               /\ ~IsEnd(r.it)
               /\ r.it.bucket = hash_function(r.key) % Size
               /\ r.it.value # Null
               /\ r.it.value = r.pre
               /\ hashmap_[r.it.bucket] = r.it.value
               /\ heap[r.it.value].key # r.key
               /\ wins[heap[r.it.value].key] = 1
               /\ \A b \in Buckets \ {r.it.bucket} : hashmap_[b] = Null
               /\ Len(r.probes) = 1 /\ r.cass = 0 /\ r.tries = 0

\* C4 witness: the call for the fifth distinct key has returned.
C4_Witness == \E t \in Threads : FifthKey(ret[t]) /\ MaxTries >= 4

\* C5: a call of get or get_or_emplace makes at most MaxTries probes, one slot
\* load each and at most one compare-and-swap each, and while it runs its next
\* step is enabled whatever the other threads do.
Probing(t) == th[t].pc \in {"gload", "load", "cas"}
C5_Bounded ==
    \A t \in Threads :
        /\ Probing(t)
           => /\ th[t].tries < MaxTries
              /\ Len(th[t].probes) <= th[t].tries + 1
              /\ th[t].cass <= th[t].tries
              /\ th[t].pc = "cas" => Len(th[t].probes) = th[t].tries + 1
              /\ ~crashed => ENABLED (GetProbe(t) \/ Load(t) \/ Cas(t))
        /\ ret[t].op \in {"get", "inc", "emplace"}
           => /\ ret[t].tries <= MaxTries
              /\ Len(ret[t].probes) <= MaxTries
              /\ Len(ret[t].probes) >= 1
              /\ ret[t].cass <= Len(ret[t].probes)

\* C5 witness: a get and a get_or_emplace have both used all MaxTries probes.
C5_Witness ==
    \E t, u \in Threads :
        /\ ret[t].op = "get" /\ Len(ret[t].probes) = MaxTries
        /\ IsEmplace(ret[u]) /\ Len(ret[u].probes) = MaxTries /\ ret[u].cass >= 1

\* C6: a traversal from begin() to end() that follows N sequential
\* get_or_emplace calls that returned inserted = true yields N entries, every
\* occupied slot once, under the keys that were inserted.
RECURSIVE SumWins(_)
SumWins(K) ==
    IF K = {} THEN 0
    ELSE LET k == CHOOSE x \in K : TRUE IN wins[k] + SumWins(K \ {k})
Occupied == {b \in Buckets : hashmap_[b] # Null}
C6_IteratorComplete ==
    \A t \in Threads :
        (ret[t].op = "iterate" /\ ret[t].joined)
        => LET y == ret[t].yield
           IN  /\ Len(y) = SumWins(KeysInUse)
               /\ \A i, j \in DOMAIN y : y[i].entry = y[j].entry => i = j
               /\ {y[i].entry : i \in DOMAIN y} = {hashmap_[b] : b \in Occupied}
               /\ YieldKeys(y) = {k \in KeysInUse : wins[k] >= 1}
               /\ IsEnd(ret[t].it)

\* C6 witness: a traversal after three or more insertions, one of them placed
\* away from its home bucket.
C6_Witness ==
    \E t \in Threads :
        /\ ret[t].op = "iterate" /\ ret[t].joined /\ Len(ret[t].yield) >= 3
        /\ \E b \in Occupied : heap[hashmap_[b]].hash % Size # b

\* C7: an occupied slot keeps its entry, a slot only changes from empty to a
\* published entry, and the hash and key of an entry never change.
C7_WriteOnce ==
    [][/\ \A b \in Buckets :
            /\ hashmap_[b] # Null => hashmap_'[b] = hashmap_[b]
            /\ hashmap_'[b] # hashmap_[b]
               => /\ hashmap_'[b] \in DOMAIN heap'
                  /\ heap'[hashmap_'[b]].st = "published"
                  /\ \A c \in Buckets \ {b} : hashmap_[c] # hashmap_'[b]
       /\ \A e \in DOMAIN heap :
            /\ e \in DOMAIN heap'
            /\ heap'[e].hash = heap[e].hash
            /\ heap'[e].key = heap[e].key]_vars

\* C7 witness: a compare-and-swap on a slot failed after the slot was occupied.
C7_Witness ==
    \E t \in Threads :
        /\ IsEmplace(ret[t]) /\ ret[t].cass >= 1 /\ ~ret[t].inserted
        /\ Occupied # {}

\* C8: a candidate is owned by the running call that made it, or is published in
\* exactly one slot, or has been freed once; none is leaked or freed twice.
C8_CandidateLifecycle ==
    \A e \in DOMAIN heap :
        /\ heap[e].st \in {"candidate", "published", "freed"}
        /\ heap[e].st = "candidate"
           => \E t \in Threads : th[t].pc = "cas" /\ th[t].newelt = e /\ heap[e].owner = t
        /\ heap[e].st = "published" <=> Cardinality({b \in Buckets : hashmap_[b] = e}) = 1
        /\ heap[e].st = "freed" => \A b \in Buckets : hashmap_[b] # e

\* The cursor of the i-th probe of a get of hash h that observed obs.
RECURSIVE ProbeCursor(_, _, _)
ProbeCursor(h, obs, i) ==
    IF i = 1 THEN h
    ELSE LET c == ProbeCursor(h, obs, i - 1)
         IN  IF heap[obs[i - 1].elt].hash # 0 THEN rehash_function(c) ELSE c
StoredHash(e) == IF e = Null THEN -1 ELSE heap[e].hash

\* C9: get(key) probes bucket = cursor mod Size from cursor = Hash(key),
\* advancing the cursor by Rehash past entries of another, non-zero hash; it
\* returns not-found exactly when a probe meets an empty slot or MaxTries probes
\* meet no entry of hash Hash(key), and otherwise the value of the first entry
\* of hash Hash(key) on that sequence, which is a published entry.
C9_NotFound ==
    \A t \in Threads :
        ret[t].op = "get"
        => LET r == ret[t]
               h == hash_function(r.key)
               p == r.probes
               n == Len(p)
           IN  /\ n >= 1 /\ n <= MaxTries
               /\ \A i \in 1 .. (n - 1) : p[i].elt # Null /\ StoredHash(p[i].elt) # h
               /\ \A i \in 1 .. n : p[i].bucket = ProbeCursor(h, p, i) % Size
               /\ r.val = Null
                  <=> \/ p[n].elt = Null
                      \/ n = MaxTries /\ StoredHash(p[n].elt) # h
               /\ r.val # Null
                  => /\ r.val = p[n].elt
                     /\ heap[r.val].hash = h
                     /\ heap[r.val].st = "published"
                     /\ hashmap_[p[n].bucket] = r.val

\* C9 witness: a get returned not-found after MaxTries probes of occupied slots
\* while another bucket was empty.
C9_Witness ==
    \E t \in Threads :
        /\ ret[t].op = "get" /\ ret[t].val = Null /\ Len(ret[t].probes) = MaxTries
        /\ ret[t].probes[MaxTries].elt # Null
        /\ Occupied # Buckets

\* C10: a get_or_emplace call that returns (end-handle, false) has made MaxTries
\* probes, each of which observed, at the load or at the failed
\* compare-and-swap, an entry of a stored hash other than Hash(key), and has
\* published nothing.
C10_InsertExhausted ==
    \A t \in Threads :
        (IsEmplace(ret[t]) /\ IsEnd(ret[t].it))
        => LET r == ret[t]
               p == r.probes
           IN  /\ ~r.inserted
               /\ r.it.value = Null
               /\ r.tries = MaxTries
               /\ Len(p) = MaxTries
               /\ \A i \in DOMAIN p :
                    /\ p[i].elt # Null
                    /\ StoredHash(p[i].elt) # hash_function(r.key)
                    /\ hashmap_[p[i].bucket] = p[i].elt
               /\ \A e \in DOMAIN heap :
                    (heap[e].owner = t /\ heap[e].call = r.call) => heap[e].st # "published"

\* C10 witness: a call returned (end-handle, false) after losing a
\* compare-and-swap to an entry of another hash.
C10_Witness ==
    \E t \in Threads :
        IsEmplace(ret[t]) /\ IsEnd(ret[t].it) /\ ret[t].cass >= 1

\* A returned call for a key other than the key of the entry that was published
\* under the key's primary hash when the call started.
Collides(r) == r.pre # Null /\ heap[r.pre].key # r.key

\* C11: a get_or_emplace(k2) call that starts when an entry made for another key
\* k1 is published under Hash(k2) = Hash(k1) returns inserted = false with a
\* handle to that entry, without constructing a candidate, and a get(k2) call
\* returns that entry; the entry stays the only one of its hash and keeps key
\* k1; the map reports nothing else, and the caller's comparison of the stored
\* key (Test::inc) ends the caller's loop.
C11_CollisionAmbiguity ==
    \A t \in Threads :
        LET r == ret[t]
        IN  Collides(r)
            => /\ \E b \in Buckets : PublishedAt(hash_function(r.key)) = {b} /\ hashmap_[b] = r.pre
               /\ heap[r.pre].hash = hash_function(r.key)
               /\ \A e \in DOMAIN heap : heap[e].key = r.key => heap[e].st # "published"
               /\ IsEmplace(r) => /\ ~r.inserted
                                  /\ ~IsEnd(r.it)
                                  /\ r.it.value = r.pre
                                  /\ hashmap_[r.it.bucket] = r.pre
                                  /\ r.cass = 0
               /\ r.op = "inc" => left[t] = 0 /\ th[t].pc = "idle"
               /\ r.op = "get" => r.val = r.pre

\* C11 witness: one thread's get_or_emplace and another's get have both returned
\* the entry made for another key of the same primary hash.
C11_Witness ==
    \E t, u \in Threads :
        /\ IsEmplace(ret[t]) /\ Collides(ret[t])
        /\ ret[u].op = "get" /\ Collides(ret[u]) /\ ret[u].val # Null

\* An entry published in the slot array, made for key under key's primary hash.
EntryOf(e, key) ==
    /\ e # Null
    /\ e \in DOMAIN heap
    /\ heap[e].st = "published"
    /\ heap[e].key = key
    /\ heap[e].hash = hash_function(key)

\* C12: when the keys in use have pairwise distinct primary hashes, a handle
\* other than end returned by get_or_emplace(key), with inserted true or false,
\* holds a non-null published entry of stored key key and stored hash Hash(key),
\* which is the entry in the slot at the handle's bucket, and a non-empty result
\* of get(key) is such an entry.
C12_ReturnedEntryMatches ==
    PairwiseDistinct
    => \A t \in Threads :
         LET r == ret[t]
         IN  /\ (IsEmplace(r) /\ ~IsEnd(r.it))
                => /\ EntryOf(r.it.value, r.key)
                   /\ r.it.bucket \in Buckets
                   /\ hashmap_[r.it.bucket] = r.it.value
             /\ (r.op = "get" /\ r.val # Null) => EntryOf(r.val, r.key)

\* C12 witness: with pairwise distinct hashes, a get_or_emplace that lost the
\* compare-and-swap for its key returned the winner's entry while another
\* thread's get returned an entry.
C12_Witness ==
    /\ PairwiseDistinct
    /\ \E t, u \in Threads :
        /\ IsEmplace(ret[t]) /\ ~ret[t].inserted /\ ~IsEnd(ret[t].it) /\ ret[t].cass >= 1
        /\ ret[u].op = "get" /\ ret[u].val # Null

\* ---------------------------------------------------------- memory order
\* hashmap_[bucket].load(std::memory_order_relaxed) in get, get_or_emplace and
\* iterator::increment; compare_exchange_weak(elt, newelt,
\* std::memory_order_release, std::memory_order_relaxed).
SlotLoadOrder == "relaxed"
CasSuccessOrder == "release"
CasFailureOrder == "relaxed"

\* An atomic load that reads the value written by an atomic store synchronizes
\* with it when the load is an acquire and the store a release operation.
SynchronizesWith(load, store) ==
    /\ load \in {"acquire", "seq_cst"}
    /\ store \in {"release", "acq_rel", "seq_cst"}

\* The entry whose fields (hash, key, value) the next step of thread t reads, if
\* any, and the order of the slot load that gave thread t the entry.
Reads(t) ==
    IF th[t].pc \in {"gload", "load"} THEN hashmap_[th[t].hash2 % Size]
    ELSE IF th[t].pc = "cas" THEN hashmap_[th[t].bucket]
    ELSE IF th[t].pc \in {"body", "add"} THEN th[t].it.value
    ELSE Null
ReadOrder(t) == IF th[t].pc = "cas" THEN CasFailureOrder ELSE SlotLoadOrder

\* The construction of entry e happens-before the next step of thread t: thread
\* t constructed it, or is ordered after it by the mutex, by the joins that
\* precede the traversal of check(), or by the slot load itself.
HappensBefore(e, t) ==
    \/ t \in heap[e].hb
    \/ th[t].joined
    \/ SynchronizesWith(ReadOrder(t), CasSuccessOrder)

\* C13: the publication of an entry happens-before every read of the entry's
\* hash, key and value by another thread in get, get_or_emplace or a traversal:
\* no thread is about to read the fields of an entry whose construction is not
\* ordered before the read.
C13_PublicationVisibility ==
    \A t \in Threads :
        (Running(t) /\ Reads(t) # Null) => HappensBefore(Reads(t), t)

\* Probe i of the probe sequence p met an entry of stored hash 0.
MetSentinel(p, i) == p[i].elt # Null /\ heap[p[i].elt].hash = 0

\* A call for a key of non-zero primary hash that has met an entry of stored
\* hash 0.
SentinelMet(x) ==
    /\ x.op \in {"get", "inc", "emplace"}
    /\ hash_function(x.key) # 0
    /\ \E i \in DOMAIN x.probes : MetSentinel(x.probes, i)

\* C14: after a probe of get or get_or_emplace, for a key of non-zero primary
\* hash, has met an entry of stored hash 0, every later probe of the call is of
\* the same bucket and meets the same entry, the cursor stays on that bucket,
\* and the call returns only after MaxTries tries, with not-found (get) or
\* (end-handle, false) (get_or_emplace).
C14_SentinelNonAdvance ==
    \A t \in Threads :
        /\ \A x \in {th[t], ret[t]} :
             SentinelMet(x)
             => \A i, j \in DOMAIN x.probes :
                  (MetSentinel(x.probes, i) /\ i <= j) => x.probes[j] = x.probes[i]
        /\ (Probing(t) /\ SentinelMet(th[t]))
           => \A i \in DOMAIN th[t].probes :
                MetSentinel(th[t].probes, i) => th[t].hash2 % Size = th[t].probes[i].bucket
        /\ SentinelMet(ret[t])
           => /\ ret[t].tries = MaxTries
              /\ Len(ret[t].probes) = MaxTries
              /\ ret[t].op = "get" => ret[t].val = Null
              /\ IsEmplace(ret[t]) => IsEnd(ret[t].it) /\ ~ret[t].inserted /\ ret[t].it.value = Null

\* C14 witness: a get_or_emplace that lost its compare-and-swap to an entry of
\* stored hash 0 and a get have both ended on such an entry while a slot of the
\* table is empty.
C14_Witness ==
    /\ \E b \in Buckets : hashmap_[b] = Null
    /\ \E t, u \in Threads :
        /\ IsEmplace(ret[t]) /\ SentinelMet(ret[t]) /\ ret[t].cass >= 1
        /\ ret[u].op = "get" /\ SentinelMet(ret[u])

\* ------------------------------------------------- iterators held by a caller
\* Calls per thread, keys, and operator++ calls per iterator of the driver that
\* constructs iterators and advances them while other calls insert.
MaxIterOps == 2
NumIterKeys == 3
MaxAdvances == 3

InitIter ==
    /\ hashmap_ = [b \in Buckets |-> Null]
    /\ heap = <<>>
    /\ th = [t \in Threads |-> IdleFrame]
    /\ ret = [t \in Threads |-> NoResult]
    /\ left = [t \in Threads |-> MaxIterOps]
    /\ hasher \in HashStrategies(1 .. NumIterKeys)
    /\ rehasher \in RehashStrategies
    /\ kinds = {"emplace"}
    /\ crashed = FALSE
    /\ wins = [k \in 1 .. NumIterKeys |-> 0]
    /\ called = {}
    /\ std_map = <<>>

\* iterator(s, b) : bucket(b), value(nullptr), then increment(). The frame keeps
\* the index of construction in bucket, the slot loads of the iterator in probes,
\* the number of operator++ calls in tries and of those made at Size in cass.
Construct(t, b) ==
    /\ CanCall(t)
    /\ th' = [th EXCEPT ![t] = [IdleFrame EXCEPT !.pc = IF InRange(b) THEN "hscan" ELSE "held",
                                 !.op = "handle", !.bucket = b,
                                 !.it = [bucket |-> b, value |-> Null]]]
    /\ ret' = [ret EXCEPT ![t] = NoResult]
    /\ UNCHANGED <<hashmap_, heap, left, hasher, rehasher, kinds, crashed, wins, called, std_map>>

\* One iteration of the loop of increment() of an iterator held by a caller.
HandleScan(t) ==
    /\ Running(t)
    /\ th[t].pc = "hscan"
    /\ LET f == th[t]
           value == hashmap_[f.it.bucket]
           g == [f EXCEPT !.it.value = value,
                          !.probes = Append(@, [bucket |-> f.it.bucket, elt |-> value])]
       IN  IF value # Null
           THEN th' = [th EXCEPT ![t] = [g EXCEPT !.pc = "held"]]
           ELSE LET h == [g EXCEPT !.it.bucket = NextBucket(@)]
                IN  th' = [th EXCEPT ![t] = [h EXCEPT !.pc = IF InRange(h.it.bucket)
                                                              THEN "hscan" ELSE "held"]]
    /\ UNCHANGED <<hashmap_, heap, ret, left, hasher, rehasher, kinds, crashed, wins, called,
                   std_map>>

\* operator++: if (bucket < size) { ++bucket; increment(); }
Advance(t) ==
    /\ Running(t)
    /\ th[t].pc = "held"
    /\ th[t].tries < MaxAdvances
    /\ LET f == [th[t] EXCEPT !.tries = @ + 1]
       IN  IF InRange(f.it.bucket)
           THEN LET g == [f EXCEPT !.it.bucket = NextBucket(@)]
                IN  th' = [th EXCEPT ![t] = [g EXCEPT !.pc = IF InRange(g.it.bucket)
                                                              THEN "hscan" ELSE "held"]]
           ELSE th' = [th EXCEPT ![t] = [f EXCEPT !.cass = @ + 1]]
    /\ UNCHANGED <<hashmap_, heap, ret, left, hasher, rehasher, kinds, crashed, wins, called,
                   std_map>>

\* The caller lets go of the iterator.
Drop(t) ==
    /\ Running(t)
    /\ th[t].pc = "held"
    /\ ret' = [ret EXCEPT ![t] = [NoResult EXCEPT !.op = "handle", !.it = th[t].it,
                                    !.tries = th[t].tries, !.probes = th[t].probes,
                                    !.cass = th[t].cass]]
    /\ th' = [th EXCEPT ![t] = IdleFrame]
    /\ left' = [left EXCEPT ![t] = @ - 1]
    /\ UNCHANGED <<hashmap_, heap, hasher, rehasher, kinds, crashed, wins, called, std_map>>

NextIter ==
    \E t \in Threads :
        \/ \E key \in KeysInUse : CallEmplace(t, "emplace", key)
        \/ Load(t)
        \/ Cas(t)
        \/ \E b \in 0 .. Size : Construct(t, b)
        \/ HandleScan(t)
        \/ Advance(t)
        \/ Drop(t)

SpecIter == InitIter /\ [][NextIter]_vars

\* The last slot value an iterator loaded, nullptr before its first load.
LastLoaded(p) == IF Len(p) = 0 THEN Null ELSE p[Len(p)].elt

\* The position of an iterator held by a caller, constructed at index f.bucket:
\* the slots from that index on were loaded once each in order; the index is
\* between the index of construction and Size; while increment() runs it is the
\* next slot to load; at rest below Size it is the slot loaded last, found
\* occupied, whose entry the iterator holds and the slot still holds; the
\* occupied slots before it are the positions operator++ has left and the other
\* slots before it were loaded empty; operator++ at Size has left it at Size.
PositionOf(f) ==
    LET i == f.bucket
        b == f.it.bucket
        p == f.probes
    IN  /\ i <= b /\ b <= Size
        /\ \A k \in DOMAIN p : p[k].bucket = i + k - 1 /\ p[k].bucket < Size
        /\ f.it.value = LastLoaded(p)
        /\ f.pc = "hscan" => b < Size /\ b = i + Len(p)
        /\ (f.pc = "held" /\ b < Size)
           => /\ Len(p) > 0 /\ p[Len(p)].bucket = b
              /\ f.it.value # Null /\ hashmap_[b] = f.it.value
        /\ (f.pc = "held" /\ b = Size) => i + Len(p) = Size
        /\ Cardinality({k \in DOMAIN p : p[k].bucket < b /\ p[k].elt # Null}) = f.tries - f.cass
        /\ f.cass >= 1 => b = Size

\* At Size the iterator holds no entry.
NoEntryAtEnd(f) == (f.pc = "held" /\ f.it.bucket = Size) => f.it.value = Null

\* At Size the iterator holds no entry, or the entry of the last slot when
\* operator++ took it from that slot to Size.
StaleEntryAtEnd(f) ==
    (f.pc = "held" /\ f.it.bucket = Size /\ f.it.value # Null)
    => /\ f.tries >= 1
       /\ f.probes[Len(f.probes)].bucket = Size - 1
       /\ hashmap_[Size - 1] = f.it.value

\* A step of an iterator held by a caller: its index does not decrease, and
\* operator++ at Size changes neither the index nor the entry.
PositionStep(t) ==
    (th[t].op = "handle" /\ th'[t].op = "handle")
    => /\ th'[t].bucket = th[t].bucket
       /\ th'[t].it.bucket >= th[t].it.bucket
       /\ (th[t].it.bucket = Size /\ th'[t].tries > th[t].tries) => th'[t].it = th[t].it

\* C15 as stated: the position invariant, with no entry held at Size.
C15_NoEntryAtSize ==
    [][\A t \in Threads :
          /\ PositionStep(t)
          /\ th'[t].op = "handle" => PositionOf(th'[t]) /\ NoEntryAtEnd(th'[t])]_vars

\* C15 amended: after construction at index i and after every operator++ the
\* index b of the iterator satisfies i <= b <= Size and never decreases; below
\* Size it is the index of a slot found occupied when loaded, whose entry the
\* iterator holds, and every slot skipped before it was loaded empty; at Size
\* the iterator holds nullptr, or still holds the entry of slot Size - 1 when
\* operator++ took it from there; operator++ at Size leaves it as it is.
C15_IteratorPosition ==
    [][\A t \in Threads :
          /\ PositionStep(t)
          /\ th'[t].op = "handle" => PositionOf(th'[t]) /\ StaleEntryAtEnd(th'[t])]_vars

\* C15 witness: an iterator skipped a slot it loaded empty, which another thread
\* has filled since, rested on an occupied slot, was advanced to Size and
\* advanced again there.
C15_Witness ==
    \E t \in Threads :
        /\ th[t].op = "handle" /\ th[t].pc = "held"
        /\ th[t].it.bucket = Size /\ th[t].cass >= 1
        /\ \E k \in DOMAIN th[t].probes : th[t].probes[k].elt # Null
        /\ \E k \in DOMAIN th[t].probes :
             th[t].probes[k].elt = Null /\ hashmap_[th[t].probes[k].bucket] # Null

\* The entries a traversal has yielded, and the slot of a published entry.
Yielded(y) == {y[i].entry : i \in DOMAIN y}
BucketOf(e) == CHOOSE b \in Buckets : hashmap_[b] = e

\* A traversal x with its cursor at index c: it has yielded entries of the slots
\* before c, each once and in slot order, among them every entry before c that
\* was published when it started or that an earlier traversal yielded; a
\* traversal that has returned has its cursor at Size.
Observed(x, c) ==
    LET y == x.yield
    IN  /\ \A i, j \in DOMAIN y : y[i].entry = y[j].entry => i = j
        /\ \A i \in DOMAIN y :
             /\ y[i].entry \in InSlots
             /\ BucketOf(y[i].entry) < c
             /\ \A j \in DOMAIN y : i < j => BucketOf(y[i].entry) < BucketOf(y[j].entry)
        /\ x.earlier \subseteq x.before
        /\ \A e \in x.before :
             /\ e \in InSlots
             /\ BucketOf(e) < c => e \in Yielded(y)

\* A step during a traversal of thread t: the cursor does not go back, and the
\* traversal yields nothing or the entry in the slot at the cursor, so that an
\* entry published in a slot the cursor has passed is never yielded.
ObservedStep(t) ==
    th[t].op = "iterate"
    => LET now == IF th'[t].op = "iterate" THEN th'[t] ELSE ret'[t]
           c == th[t].it.bucket
       IN  /\ now.it.bucket >= c
           /\ \/ now.yield = th[t].yield
              \/ /\ c < Size
                 /\ hashmap_[c] # Null
                 /\ Len(now.yield) = Len(th[t].yield) + 1
                 /\ SubSeq(now.yield, 1, Len(th[t].yield)) = th[t].yield
                 /\ now.yield[Len(now.yield)].entry = hashmap_[c]
           /\ \A b \in Buckets :
                (b < c /\ hashmap_[b] = Null) => hashmap_'[b] \notin Yielded(now.yield)

\* Every traversal, running or returned, is as Observed says.
ObservedAll ==
    \A t \in Threads :
        /\ th[t].op = "iterate" => Observed(th[t], th[t].it.bucket)
        /\ ret[t].op = "iterate" => ret[t].it.bucket = Size /\ Observed(ret[t], Size)

\* C16: a traversal from begin() to end() yields exactly once every entry that
\* was published when it started or that an earlier traversal yielded, whatever
\* get_or_emplace calls run during it; it yields an entry published during it at
\* most once, and only one published in a slot at or after the cursor.
C16_MonotoneObservability ==
    [][(\A t \in Threads : ObservedStep(t)) /\ ObservedAll']_vars

\* C16 witness: a traversal that ran while other threads inserted has returned;
\* it yielded an entry published before it started and one published during
\* it, and a slot holds an entry that it did not yield.
C16_Witness ==
    \E t \in Threads :
        /\ ret[t].op = "iterate" /\ ~ret[t].joined
        /\ \E e \in ret[t].before : e \in Yielded(ret[t].yield)
        /\ \E e \in Yielded(ret[t].yield) : e \notin ret[t].before
        /\ \E e \in InSlots : e \notin Yielded(ret[t].yield)

\* The slots a step changes, and the calls of get_or_emplace that return in it.
Changed == {b \in Buckets : hashmap_'[b] # hashmap_[b]}
Returns(t) == th[t].pc \in {"load", "cas"} /\ th'[t].pc \notin {"load", "cas"}

\* C17: a step changes at most one slot; a changed slot was empty and is changed
\* by the step in which a get_or_emplace call returns inserted = true with a
\* handle at that slot's bucket holding the slot's new entry, and no other step
\* of the call changes a slot; a get_or_emplace call that returns inserted =
\* false changes none, and no step of a get or of a traversal (construction,
\* dereference and advance of its iterator) changes a slot.
C17_Frame ==
    [][/\ Cardinality(Changed) <= 1
       /\ \A b \in Changed :
            /\ hashmap_[b] = Null
            /\ \E t \in Threads :
                 /\ Returns(t) /\ th[t].pc = "cas" /\ th[t].bucket = b
                 /\ IsEmplace(ret'[t]) /\ ret'[t].inserted
                 /\ ret'[t].it = [bucket |-> b, value |-> hashmap_'[b]]
                 /\ \A u \in Threads \ {t} : th'[u] = th[u]
       /\ \A t \in Threads :
            /\ Returns(t) => (ret'[t].inserted <=> Changed # {})
            /\ (InEmplace(t, th[t].key) /\ th'[t] # th[t] /\ ~Returns(t)) => Changed = {}
            /\ (th[t].op \in {"get", "iterate"} /\ th'[t] # th[t]) => Changed = {}
            /\ (th[t].pc = "idle" /\ th'[t] # th[t]) => Changed = {}]_vars

\* C17 witness: a get_or_emplace call has returned inserted = true, another has
\* returned inserted = false after its compare-and-swap failed, and a traversal
\* that yielded an entry has returned.
C17_Witness ==
    \E t, u \in Threads :
        /\ IsEmplace(ret[t]) /\ ~ret[t].inserted /\ ret[t].cass >= 1
        /\ ret[u].op = "iterate" /\ Len(ret[u].yield) >= 1
        /\ \E k \in KeysInUse : wins[k] = 1

\* The step is a compare-and-swap of thread t that reports failure: it changes no
\* slot, and thread t goes on to the branches on the observed entry or, its
\* slot being empty, the process ends in them.
CasFails(t) ==
    /\ th[t].pc = "cas"
    /\ hashmap_' = hashmap_
    /\ \/ th'[t] # th[t]
       \/ crashed' /\ ~crashed /\ Expected(hashmap_[th[t].bucket])

\* C18: when the compare-and-swap of get_or_emplace reports failure, the slot
\* value it hands back is a published entry, not nullptr, and the call goes on
\* to compare that entry's hash.
C18_FailedPublishObservesEntry ==
    [][\A t \in Threads :
          CasFails(t)
          => /\ hashmap_[th[t].bucket] # Null
             /\ heap[hashmap_[th[t].bucket]].st = "published"
             /\ ~crashed']_vars

RECURSIVE Replay(_, _, _)
Replay(h, c, n) ==
    IF n >= MaxTries THEN [bucket |-> -1, steps |-> n]
    ELSE LET v == hashmap_[c % Size]
         IN  IF v = Null THEN [bucket |-> -1, steps |-> n]
             ELSE IF heap[v].hash = h THEN [bucket |-> c % Size, steps |-> n]
             ELSE IF heap[v].hash = 0 THEN [bucket |-> -1, steps |-> n]
             ELSE Replay(h, rehash_function(c), n + 1)

\* C20: for every published entry e at bucket b, the probe sequence replayed
\* from cursor e.hash over the slots as they are reaches b after fewer than
\* MaxTries rehash steps, every bucket it visits before b being occupied by an
\* entry of another, non-zero stored hash.
C20_ProbeChainReachable ==
    \A b \in Occupied :
        LET r == Replay(heap[hashmap_[b]].hash, heap[hashmap_[b]].hash, 0)
        IN  r.bucket = b /\ r.steps < MaxTries

\* C20 witness: under the default rehash strategy an entry is published in a
\* bucket that its probe sequence reaches after two rehash steps.
C20_Witness ==
    /\ rehasher = "Rehash"
    /\ \E b \in Occupied :
         LET r == Replay(heap[hashmap_[b]].hash, heap[hashmap_[b]].hash, 0)
         IN  r.bucket = b /\ r.steps >= 2
====
